---- MODULE Spec2Model ----
(***************************************************************************)
(* Model of the Scavenger Hunt core app (core/views.py, core/models.py):   *)
(* the Ion OAuth2 handshake, the Participant upsert, the session binding   *)
(* and the hunt-window gate of the challenge page.                         *)
(*                                                                         *)
(* Text values (names, usernames, e-mail addresses) are sequences of       *)
(* one-character strings so that strip() and concatenation are computed.   *)
(* None is the string NoneVal for values that are strings in the code, 0   *)
(* for a participant id (an AutoField pk is never 0) and -1 for a time.    *)
(*                                                                         *)
(* request.session is the mapping the handlers read and write: what a      *)
(* handler writes is what the session's next request reads, whatever the   *)
(* response was.  A session serves one request at a time; requests of      *)
(* different sessions interleave at the statements of update_or_create     *)
(* (SpecConc), with no lock held between them.  The hunt boundaries are    *)
(* None or aware datetimes.                                                *)
(*                                                                         *)
(* The specifications share the handlers:                                  *)
(*   Spec       every handler in one step, any OAuth configuration;        *)
(*   SpecHunt   the pages behind the login for every hunt window, while    *)
(*              the clock runs and participant rows get deleted;           *)
(*   SpecConc   logins whose update_or_create calls interleave;            *)
(*   SpecStart  oauth_start under every setting the OAuth library reads;   *)
(*   SpecMap    logins of a user with any of the mapper's payloads;        *)
(*   SpecLogin  repeated logins and challenge visits while the clock runs; *)
(*   SpecReplay one browser's oauth_starts and callbacks, recorded.        *)
(***************************************************************************)
EXTENDS Integers, Sequences, FiniteSets, TLC

\* ------------------------------------------------------------------ bounds

\* The clock runs over 0..MaxTime.
MaxTime == 2

\* The trail keeps a session's latest MaxTrail handshake requests.
MaxTrail == 4

\* ------------------------------------------------------------------ values

NoneVal == "<None>"

\* No callback has matched the stored state since the session's last oauth_start.
Unused == "<unused>"

Sessions == {1, 2}

\* States that oauthlib's generate_token can return, tokens the provider issues.
OAuthStates == {"st1", "st2"}
Tokens == {"tokA", "tokB"}

\* request.GET.get("state"): absent (None), empty, or a value.
QueryStates == {NoneVal, ""} \cup OAuthStates

\* request.GET.get("code"): absent (None), empty, or a value.
QueryCodes == {NoneVal, "", "code"}

Times == 0..MaxTime

\* ------------------------------------------------------------------ text

Truthy(s) == s # NoneVal /\ s # ""

IsSpace(c) == c = " "

RECURSIVE LStrip(_)
LStrip(s) == IF s # <<>> /\ IsSpace(Head(s)) THEN LStrip(Tail(s)) ELSE s

RECURSIVE RStrip(_)
RStrip(s) ==
  IF s # <<>> /\ IsSpace(s[Len(s)]) THEN RStrip(SubSeq(s, 1, Len(s) - 1)) ELSE s

\* str.strip()
Strip(s) == RStrip(LStrip(s))

\* str.lower() on the group names the model uses.
Lower(g) ==
  CASE g = "Scavenger-Admin" -> "scavenger-admin"
    [] g = "Ion-Admin" -> "ion-admin"
    [] g = "ADMIN" -> "admin"
    [] g = "Admin" -> "admin"
    [] OTHER -> g

\* int(value) on the values the model uses: [ok, n, error]; ok is FALSE where
\* int() raises, and error names the exception: "TypeError" (a list, an
\* object), "ValueError" (text that is no integer literal, NaN) or
\* "OverflowError" (a float infinity, which json() yields for 1e999).
ParseInt(v) ==
  CASE v.t = "int" -> [ok |-> TRUE, n |-> v.n, error |-> "none"]
    [] v.t = "str" /\ v.s = "2026" -> [ok |-> TRUE, n |-> 2026, error |-> "none"]
    [] v.t = "str" /\ v.s = " 2027 " -> [ok |-> TRUE, n |-> 2027, error |-> "none"]
    [] v.t = "str" /\ v.s = "0" -> [ok |-> TRUE, n |-> 0, error |-> "none"]
    [] v.t = "str" /\ v.s = "-5" -> [ok |-> TRUE, n |-> -5, error |-> "none"]
    [] v.t = "float" /\ v.s = "2026.5" -> [ok |-> TRUE, n |-> 2026, error |-> "none"]
    [] v.t = "float" /\ v.s = "inf" -> [ok |-> FALSE, n |-> 0, error |-> "OverflowError"]
    [] v.t = "other" -> [ok |-> FALSE, n |-> 0, error |-> "TypeError"]
    [] OTHER -> [ok |-> FALSE, n |-> 0, error |-> "ValueError"]

\* ------------------------------------------------------------------ profile

\* A profile payload (profile_response.json()).  A text field that is absent
\* or None is <<>> (the code reads each through `or ""` or a truthiness
\* test); graduation_year and groups are tagged values: t = "absent" (the key
\* is missing or null), or "str"/"int"/"float"/"other" (graduation_year: text,
\* an integer, a float, a list or object), or "list"/"str"/"other" (groups: a
\* list, a bare string, a number or object).
AbsentYear == [t |-> "absent", s |-> "", n |-> 0]
StrYear(s) == [t |-> "str", s |-> s, n |-> 0]
IntYear(n) == [t |-> "int", s |-> "", n |-> n]
FloatYear(s) == [t |-> "float", s |-> s, n |-> 0]
OtherYear == [t |-> "other", s |-> "", n |-> 0]
AbsentGroups == [t |-> "absent", v |-> <<>>]
ListGroups(v) == [t |-> "list", v |-> v]
StrGroups(s) == [t |-> "str", v |-> <<s>>]
OtherGroups == [t |-> "other", v |-> <<>>]

MkProfile(u, first, last, mail, year, groups, adm, staff) ==
  [ion_username |-> u, first_name |-> first, last_name |-> last,
   tj_email |-> <<>>, email |-> mail, graduation_year |-> year,
   groups |-> groups, is_admin |-> adm, is_staff |-> staff]

Alice == <<"a">>
Bob == <<"b">>

AdminAlice ==
  MkProfile(Alice, <<"A", " ">>, <<>>, <<"a", "@">>, IntYear(2026),
            ListGroups(<<"students", "Ion-Admin">>), FALSE, FALSE)

PlainBob ==
  MkProfile(Bob, <<"B">>, <<"O">>, <<>>, StrYear("2026"),
            ListGroups(<<"students">>), FALSE, FALSE)

\* The payloads the provider can answer with.
Profiles ==
  { AdminAlice, PlainBob,
    MkProfile(Alice, <<>>, <<"L">>, <<>>, StrYear("abc"),
              AbsentGroups, FALSE, FALSE),
    MkProfile(<<>>, <<"N">>, <<>>, <<>>, AbsentYear,
              ListGroups(<<"ADMIN">>), TRUE, FALSE) }

\* The values of graduation_year, of groups and of the names that the profile
\* mapper is run on.
YearValues ==
  { AbsentYear, StrYear(""), StrYear("abc"), StrYear("2026"), StrYear(" 2027 "),
    StrYear("0"), StrYear("-5"), IntYear(2026), IntYear(0), IntYear(-5),
    FloatYear("2026.5"), FloatYear("nan"), FloatYear("inf"), OtherYear }

GroupValues ==
  { AbsentGroups, OtherGroups, StrGroups("admin"), ListGroups(<<>>),
    ListGroups(<<"students">>), ListGroups(<<"administrators">>),
    ListGroups(<<"admin">>), ListGroups(<<"Admin", "students">>),
    ListGroups(<<"students", "Ion-Admin">>),
    ListGroups(<<"Scavenger-Admin", "students">>) }

FirstNames == {<<>>, <<" ">>, <<"A">>, <<" ", "A", " ">>}
LastNames == {<<>>, <<" ">>, <<"L">>, <<"L", " ">>}
PaddedUsernames == {Alice, <<" ", "a", " ">>, <<" ">>}

\* The payloads the profile mapper is run on: each field varied on its own.
MapperProfiles ==
  {MkProfile(Alice, <<"A">>, <<>>, <<>>, year, ListGroups(<<"students">>), FALSE, FALSE) :
     year \in YearValues}
  \cup {MkProfile(Alice, <<"A">>, <<>>, <<>>, AbsentYear, g[1], g[2], g[3]) :
          g \in GroupValues \X BOOLEAN \X BOOLEAN}
  \cup {MkProfile(n[1], n[2], n[3], <<>>, AbsentYear, AbsentGroups, FALSE, FALSE) :
          n \in PaddedUsernames \X FirstNames \X LastNames}

\* _extract_graduation_year: [raised, null, n]; raised when int() raises an
\* exception the function does not catch.
ExtractGraduationYear(profile) ==
  LET value == profile.graduation_year
      parsed == ParseInt(value)
  IN  IF value.t = "absent" \/ (value.t = "str" /\ value.s = "")
        THEN [raised |-> FALSE, null |-> TRUE, n |-> 0]
      ELSE IF parsed.ok THEN [raised |-> FALSE, null |-> FALSE, n |-> parsed.n]
      ELSE IF parsed.error \in {"TypeError", "ValueError"}
        THEN [raised |-> FALSE, null |-> TRUE, n |-> 0]
      ELSE [raised |-> TRUE, null |-> TRUE, n |-> 0]

\* A slip of _extract_is_admin: the group names are compared as they come.
ExtractIsAdminCaseSensitive(profile) ==
  LET groups == IF profile.groups.t = "list" /\ profile.groups.v # <<>>
                  THEN {profile.groups.v[i] : i \in DOMAIN profile.groups.v}
                  ELSE {}
  IN  \/ {"scavenger-admin", "ion-admin", "admin"} \cap groups # {}
      \/ profile.is_admin
      \/ profile.is_staff

\* _extract_is_admin
ExtractIsAdmin(profile) ==
  LET groups == IF profile.groups.t = "list" /\ profile.groups.v # <<>>
                  THEN {Lower(profile.groups.v[i]) : i \in DOMAIN profile.groups.v}
                  ELSE {}
  IN  \/ {"scavenger-admin", "ion-admin", "admin"} \cap groups # {}
      \/ profile.is_admin
      \/ profile.is_staff

\* A slip of _build_display_name: the username is handed back as received.
BuildDisplayNameRawFallback(profile) ==
  LET first == Strip(profile.first_name)
      last == Strip(profile.last_name)
  IN  IF first # <<>> \/ last # <<>>
        THEN Strip(first \o <<" ">> \o last)
        ELSE profile.ion_username

\* _build_display_name
BuildDisplayName(profile) ==
  LET first == Strip(profile.first_name)
      last == Strip(profile.last_name)
  IN  IF first # <<>> \/ last # <<>>
        THEN Strip(first \o <<" ">> \o last)
        ELSE Strip(profile.ion_username)

\* ------------------------------------------------------------------ state

VARIABLES
  settings,   \* django.conf.settings: fixed when the process starts
  now,        \* timezone.now()
  session,    \* request.session of each browser session
  store,      \* the Participant table: a set of rows
  nextPk,     \* the table's AutoField sequence
  pc,         \* where each session's request stands inside update_or_create
  req,        \* the locals of that request
  last,       \* the most recent request and its response
  used,       \* per session: the state a callback matched since the last oauth_start
  lastAdmin,  \* per username: is_admin mapped by the latest completed login
  directory,  \* the identity provider's profile payload of the user at the browser
  trail       \* per session: its latest handshake requests and their responses

vars ==
  <<settings, now, session, store, nextPk, pc, req, last, used, lastAdmin,
    directory, trail>>

Usernames == {p.ion_username : p \in Profiles \cup MapperProfiles} \ {<<>>}

\* SESSION_STATE_KEY, SESSION_TOKEN_KEY, SESSION_PARTICIPANT_KEY of one session;
\* an absent key is NoneVal (0 for the participant id).
EmptySession == [state |-> NoneVal, token |-> NoneVal, participant |-> 0]

NoProfile == MkProfile(<<>>, <<>>, <<>>, <<>>, AbsentYear, AbsentGroups, FALSE, FALSE)

NoDefaults ==
  [display_name |-> <<>>, email |-> <<>>, graduation_year |-> [null |-> TRUE, n |-> 0],
   is_admin |-> FALSE, last_login |-> -1]

NoReq == [ion_username |-> <<>>, defaults |-> NoDefaults, obj |-> 0, q |-> NoneVal,
          how |-> "none"]

\* The record kept of the most recent request: the handler, the session, the
\* query state it carried, the username it logged in, the is_admin that
\* username's row held before ("none": no row) and how update_or_create got
\* its row ("created", "updated", or "retried": found after the INSERT hit the
\* unique constraint) (oauth_callback), the response and the hunt context
\* handed to the template (challenge_view).
NoRequest ==
  [op |-> "none", sid |-> 0, q |-> NoneVal, ion_username |-> <<>>, prior |-> "none",
   how |-> "none", result |-> "none",
   hunt_state |-> "none", hunt_message |-> <<>>]

\* ------------------------------------------------------------------ helpers

\* _missing_oauth_settings: the keys whose value is falsy, in dict order.
MissingOAuthSettings(require_secret) ==
  (IF settings.ION_CLIENT_ID THEN <<>> ELSE <<"ION_CLIENT_ID">>)
  \o (IF settings.ION_REDIRECT_URI THEN <<>> ELSE <<"ION_REDIRECT_URI">>)
  \o (IF require_secret /\ ~settings.ION_CLIENT_SECRET
        THEN <<"ION_CLIENT_SECRET">> ELSE <<>>)

RowsByPk(pk) == {r \in store : r.pk = pk}
RowsByUsername(u) == {r \in store : r.ion_username = u}

\* A slip of _get_logged_in_participant: a binding to a deleted row is reported
\* as no participant but stays in the session.
GetLoggedInParticipantKeepsBinding(s) ==
  LET participant_id == session[s].participant
      rows == {r \in store : r.pk = participant_id}
  IN  IF participant_id # 0 /\ rows # {}
        THEN LET row == CHOOSE r \in rows : TRUE
             IN  [found |-> TRUE, pk |-> row.pk, is_admin |-> row.is_admin,
                  session |-> session[s]]
      ELSE [found |-> FALSE, pk |-> 0, is_admin |-> FALSE, session |-> session[s]]

\* _get_logged_in_participant: [found, row pk, is_admin, the session afterwards].
GetLoggedInParticipant(s) ==
  LET participant_id == session[s].participant
  IN  IF participant_id = 0
        THEN [found |-> FALSE, pk |-> 0, is_admin |-> FALSE, session |-> session[s]]
      ELSE IF RowsByPk(participant_id) # {}
        THEN LET row == CHOOSE r \in RowsByPk(participant_id) : TRUE
             IN  [found |-> TRUE, pk |-> row.pk, is_admin |-> row.is_admin,
                  session |-> session[s]]
      ELSE [found |-> FALSE, pk |-> 0, is_admin |-> FALSE,
            session |-> [session[s] EXCEPT !.participant = 0]]

\* _format_est: None for None, else the instant rendered to the minute, the
\* model's unit of time.
FormatEst(dt) ==
  IF dt = -1 THEN [none |-> TRUE, text |-> <<>>]
  ELSE [none |-> FALSE, text |-> <<dt>>]

\* A slip of _hunt_window_status: the boundaries themselves count as closed.
HuntWindowStatusInclusive(t) ==
  LET start == settings.SCAV_HUNT_START
      end == settings.SCAV_HUNT_END
  IN  IF start # -1 /\ t <= start
        THEN [is_open |-> FALSE, state |-> "upcoming",
              message |-> <<"opens on">> \o FormatEst(start).text]
      ELSE IF end # -1 /\ t >= end
        THEN [is_open |-> FALSE, state |-> "ended",
              message |-> <<"closed on">> \o FormatEst(end).text]
      ELSE [is_open |-> TRUE, state |-> "open", message |-> <<>>]

\* _hunt_window_status: (is_open, state, message)
HuntWindowStatus(t) ==
  LET start == settings.SCAV_HUNT_START
      end == settings.SCAV_HUNT_END
  IN  IF start # -1 /\ t < start
        THEN [is_open |-> FALSE, state |-> "upcoming",
              message |-> <<"opens on">> \o FormatEst(start).text]
      ELSE IF end # -1 /\ t > end
        THEN [is_open |-> FALSE, state |-> "ended",
              message |-> <<"closed on">> \o FormatEst(end).text]
      ELSE [is_open |-> TRUE, state |-> "open", message |-> <<>>]

\* HTTP status of each response.
Status(result) ==
  CASE result \in {"render_login", "render_dashboard", "render_challenge"} -> 200
    [] result \in {"redirect_authorize", "redirect_challenge", "redirect_login"} -> 302
    [] result \in {"invalid_state", "missing_code"} -> 400
    [] result = "render_closed" -> 403
    [] result \in {"improperly_configured", "overflow_error", "server_error"} -> 500
    [] result \in {"token_failed", "profile_failed", "no_username"} -> 502
    [] OTHER -> 0

Respond(op, s, result) ==
  [NoRequest EXCEPT !.op = op, !.sid = s, !.result = result]

Idle(s) == pc[s] = "idle"

\* ------------------------------------------------------------------ Init

\* The deployments: each OAuth setting present (for ION_AUTHORIZE_URL: an
\* https URL) or missing, oauthlib's transport check switched off (DEBUG) or
\* not, each boundary of the hunt window unset (-1) or an instant.
Configurations ==
  [ION_CLIENT_ID : BOOLEAN, ION_REDIRECT_URI : BOOLEAN, ION_CLIENT_SECRET : BOOLEAN,
   ION_AUTHORIZE_URL : BOOLEAN, ION_SCOPE : BOOLEAN,
   OAUTHLIB_INSECURE_TRANSPORT : BOOLEAN,
   SCAV_HUNT_START : {-1} \cup Times, SCAV_HUNT_END : {-1} \cup Times]

\* The settings oauth_start hands to the OAuth library unchecked are set, and
\* the library checks the transport.
ProviderConfigured ==
  /\ settings.ION_AUTHORIZE_URL
  /\ settings.ION_SCOPE
  /\ ~settings.OAUTHLIB_INSECURE_TRANSPORT

FullyConfigured ==
  settings.ION_CLIENT_ID /\ settings.ION_REDIRECT_URI /\ settings.ION_CLIENT_SECRET

\* A fresh deployment: no participant, no session data.
Fresh ==
  /\ now = 0
  /\ session = [s \in Sessions |-> EmptySession]
  /\ store = {}
  /\ nextPk = 1
  /\ pc = [s \in Sessions |-> "idle"]
  /\ req = [s \in Sessions |-> NoReq]
  /\ last = NoRequest
  /\ used = [s \in Sessions |-> Unused]
  /\ lastAdmin = [u \in Usernames |-> "none"]
  /\ directory = NoProfile
  /\ trail = [s \in Sessions |-> <<>>]

\* Any configuration of the settings the handlers check; the hunt opens at
\* instant 1 and has no end.
Init ==
  /\ settings \in Configurations
  /\ ProviderConfigured
  /\ settings.SCAV_HUNT_START = 1
  /\ settings.SCAV_HUNT_END = -1
  /\ Fresh

\* ------------------------------------------------------------------ actions

\* The clock advances.
Tick ==
  /\ now < MaxTime
  /\ now' = now + 1
  /\ last' = [NoRequest EXCEPT !.op = "tick"]
  /\ UNCHANGED <<settings, session, store, nextPk, pc, req, used, lastAdmin>>

\* login_view
LoginView(s) ==
  /\ Idle(s)
  /\ LET got == GetLoggedInParticipant(s)
     IN  /\ session' = [session EXCEPT ![s] = got.session]
         /\ last' = Respond("login_view", s,
                            IF got.found THEN "redirect_challenge" ELSE "render_login")
  /\ UNCHANGED <<settings, now, store, nextPk, pc, req, used, lastAdmin>>

\* dashboard_view
DashboardView(s) ==
  /\ Idle(s)
  /\ LET got == GetLoggedInParticipant(s)
     IN  /\ session' = [session EXCEPT ![s] = got.session]
         /\ last' = Respond("dashboard_view", s,
                            IF got.found THEN "render_dashboard" ELSE "redirect_login")
  /\ UNCHANGED <<settings, now, store, nextPk, pc, req, used, lastAdmin>>

\* Slips of challenge_view: no admin bypass; a closed window answered like a
\* missing login.
ChallengeDecisionNoBypass(is_open, is_admin) ==
  IF is_open THEN "render_challenge" ELSE "render_closed"

ChallengeDecisionRedirects(is_open, is_admin) ==
  IF is_open \/ is_admin THEN "render_challenge" ELSE "redirect_login"

\* The response challenge_view chooses for a resolved participant.
ChallengeDecision(is_open, is_admin) ==
  IF is_open \/ is_admin THEN "render_challenge" ELSE "render_closed"

\* challenge_view
ChallengeView(s) ==
  /\ Idle(s)
  /\ LET got == GetLoggedInParticipant(s)
         hunt == HuntWindowStatus(now)
     IN  /\ session' = [session EXCEPT ![s] = got.session]
         /\ last' =
              IF ~got.found THEN Respond("challenge_view", s, "redirect_login")
              ELSE [Respond("challenge_view", s,
                            ChallengeDecision(hunt.is_open, got.is_admin))
                      EXCEPT !.hunt_state = hunt.state, !.hunt_message = hunt.message]
  /\ UNCHANGED <<settings, now, store, nextPk, pc, req, used, lastAdmin>>

\* A slip of oauth_start: a state that is pending stays in the session.
OAuthStartKeepsPending(s) ==
  /\ Idle(s)
  /\ IF ~settings.ION_CLIENT_ID \/ ~settings.ION_REDIRECT_URI
       THEN /\ last' = [NoRequest EXCEPT !.op = "oauth_start", !.sid = s,
                                          !.result = "improperly_configured"]
            /\ UNCHANGED <<session, used>>
     ELSE IF ~settings.ION_AUTHORIZE_URL /\ ~settings.OAUTHLIB_INSECURE_TRANSPORT
       THEN /\ last' = [NoRequest EXCEPT !.op = "oauth_start", !.sid = s,
                                          !.result = "server_error"]
            /\ UNCHANGED <<session, used>>
       ELSE \E state \in OAuthStates :
              /\ session' = [session EXCEPT
                               ![s].state = IF @ = NoneVal THEN state ELSE @]
              /\ used' = [used EXCEPT ![s] = Unused]
              /\ last' = [NoRequest EXCEPT !.op = "oauth_start", !.sid = s,
                                          !.result = "redirect_authorize",
                                          !.q = state]
  /\ UNCHANGED <<settings, now, store, nextPk, pc, req, lastAdmin>>

\* oauth.authorization_url(settings.ION_AUTHORIZE_URL) raises
\* InsecureTransportError: the URL is not an https URL (it is empty) and the
\* transport check is on.
InsecureTransport ==
  ~settings.ION_AUTHORIZE_URL /\ ~settings.OAUTHLIB_INSECURE_TRANSPORT

\* oauth_start
OAuthStart(s) ==
  /\ Idle(s)
  /\ IF MissingOAuthSettings(FALSE) # <<>>
       THEN /\ last' = Respond("oauth_start", s, "improperly_configured")
            /\ UNCHANGED <<session, used>>
     ELSE IF InsecureTransport
       THEN /\ last' = Respond("oauth_start", s, "server_error")
            /\ UNCHANGED <<session, used>>
       ELSE \E state \in OAuthStates :
              /\ session' = [session EXCEPT ![s].state = state]
              /\ used' = [used EXCEPT ![s] = Unused]
              /\ last' = [Respond("oauth_start", s, "redirect_authorize")
                            EXCEPT !.q = state]
  /\ UNCHANGED <<settings, now, store, nextPk, pc, req, lastAdmin>>

\* The defaults oauth_callback hands to update_or_create.
Defaults(profile, t) ==
  LET built == BuildDisplayName(profile)
  IN  [display_name |-> IF built # <<>> THEN built ELSE profile.ion_username,
       email |-> IF profile.tj_email # <<>> THEN profile.tj_email ELSE profile.email,
       graduation_year |-> [null |-> ExtractGraduationYear(profile).null,
                            n |-> ExtractGraduationYear(profile).n],
       is_admin |-> ExtractIsAdmin(profile),
       last_login |-> t]

NewRow(pk, username, defaults) ==
  [pk |-> pk, ion_username |-> username, display_name |-> defaults.display_name,
   email |-> defaults.email, graduation_year |-> defaults.graduation_year,
   is_admin |-> defaults.is_admin, last_login |-> defaults.last_login]

\* Slips of the UPDATE: last_login is left out of the defaults; is_admin is.
SaveDefaultsKeepsLogin(obj, defaults) ==
  [obj EXCEPT !.display_name = defaults.display_name, !.email = defaults.email,
              !.graduation_year = defaults.graduation_year,
              !.is_admin = defaults.is_admin]

SaveDefaultsKeepsAdmin(obj, defaults) ==
  [obj EXCEPT !.display_name = defaults.display_name, !.email = defaults.email,
              !.graduation_year = defaults.graduation_year,
              !.last_login = defaults.last_login]

\* obj.save(update_fields=defaults) on row `obj`: one UPDATE of all the defaults.
SaveDefaults(obj, defaults) ==
  [obj EXCEPT !.display_name = defaults.display_name, !.email = defaults.email,
              !.graduation_year = defaults.graduation_year,
              !.is_admin = defaults.is_admin, !.last_login = defaults.last_login]

\* graduation_year is a PositiveIntegerField: the column carries the check
\* graduation_year >= 0, and an INSERT or UPDATE of a negative value raises
\* IntegrityError.
CheckViolation(defaults) ==
  ~defaults.graduation_year.null /\ defaults.graduation_year.n < 0

\* A slip of update_or_create: is_admin, once granted, survives later logins.
UpdateOrCreateSticky(username, defaults) ==
  LET rows == RowsByUsername(username)
  IN  IF CheckViolation(defaults)
        THEN [store |-> store, nextPk |-> nextPk, pk |-> 0, created |-> FALSE,
              raised |-> TRUE]
      ELSE IF rows = {}
        THEN [store |-> store \cup {NewRow(nextPk, username, defaults)},
              nextPk |-> nextPk + 1, pk |-> nextPk, created |-> TRUE,
              raised |-> FALSE]
        ELSE LET obj == CHOOSE r \in rows : TRUE
                 kept == [defaults EXCEPT !.is_admin = obj.is_admin \/ defaults.is_admin]
             IN  [store |-> (store \ {obj}) \cup {SaveDefaults(obj, kept)},
                  nextPk |-> nextPk, pk |-> obj.pk, created |-> FALSE,
                  raised |-> FALSE]

\* Participant.objects.update_or_create(ion_username=..., defaults=...) run
\* alone: [store, nextPk, pk of the participant, created, raised]; raised when
\* the INSERT or the UPDATE ends in IntegrityError, which leaves the table as
\* it was.
UpdateOrCreate(username, defaults) ==
  LET rows == RowsByUsername(username)
  IN  IF CheckViolation(defaults)
        THEN [store |-> store, nextPk |-> nextPk, pk |-> 0, created |-> FALSE,
              raised |-> TRUE]
      ELSE IF rows = {}
        THEN [store |-> store \cup {NewRow(nextPk, username, defaults)},
              nextPk |-> nextPk + 1, pk |-> nextPk, created |-> TRUE,
              raised |-> FALSE]
        ELSE LET obj == CHOOSE r \in rows : TRUE
             IN  [store |-> (store \ {obj}) \cup {SaveDefaults(obj, defaults)},
                  nextPk |-> nextPk, pk |-> obj.pk, created |-> FALSE,
                  raised |-> FALSE]

\* The state check of oauth_callback: `not state or state != stored_state`.
InvalidState(state, stored_state) == ~Truthy(state) \/ state # stored_state

\* Slips of oauth_callback's prelude: "pop_late" pops the stored state only
\* after the state check has passed, "no_pop" reads it without removing it,
\* "token_early" writes the session token before the exchange has succeeded,
\* "token_dropped" forgets the token when the profile step aborts.
SlippedPrelude(s, state, code, tokenOk, tok, profileOutcome, profile, slip) ==
  LET stored_state == session[s].state
      popped == IF slip = "no_pop" THEN session[s]
                ELSE [session[s] EXCEPT !.state = NoneVal]
      withToken == [popped EXCEPT !.token = tok]
  IN  IF MissingOAuthSettings(TRUE) # <<>>
        THEN [result |-> "improperly_configured", session |-> session[s]]
      ELSE IF ~Truthy(state) \/ state # stored_state
        THEN [result |-> "invalid_state",
              session |-> IF slip = "pop_late" THEN session[s] ELSE popped]
      ELSE IF ~Truthy(code)
        THEN [result |-> "missing_code", session |-> popped]
      ELSE IF ~tokenOk
        THEN [result |-> "token_failed",
              session |-> IF slip = "token_early" THEN withToken ELSE popped]
      ELSE IF profileOutcome # "ok"
        THEN [result |-> "profile_failed",
              session |-> IF slip = "token_dropped" THEN popped ELSE withToken]
      ELSE IF profile.ion_username = <<>>
        THEN [result |-> "no_username",
              session |-> IF slip = "token_dropped" THEN popped ELSE withToken]
      ELSE IF ExtractGraduationYear(profile).raised
        THEN [result |-> "overflow_error", session |-> withToken]
      ELSE [result |-> "upsert", session |-> withToken]

PreludePopLate(s, state, code, tokenOk, tok, profileOutcome, profile) ==
  SlippedPrelude(s, state, code, tokenOk, tok, profileOutcome, profile, "pop_late")

PreludeNoPop(s, state, code, tokenOk, tok, profileOutcome, profile) ==
  SlippedPrelude(s, state, code, tokenOk, tok, profileOutcome, profile, "no_pop")

PreludeTokenEarly(s, state, code, tokenOk, tok, profileOutcome, profile) ==
  SlippedPrelude(s, state, code, tokenOk, tok, profileOutcome, profile, "token_early")

PreludeTokenDropped(s, state, code, tokenOk, tok, profileOutcome, profile) ==
  SlippedPrelude(s, state, code, tokenOk, tok, profileOutcome, profile, "token_dropped")

\* A slip of oauth_callback's prelude: the code is checked before the state.
PreludeCodeFirst(s, state, code, tokenOk, tok, profileOutcome, profile) ==
  LET stored_state == session[s].state
      popped == [session[s] EXCEPT !.state = NoneVal]
      withToken == [popped EXCEPT !.token = tok]
  IN  IF MissingOAuthSettings(TRUE) # <<>>
        THEN [result |-> "improperly_configured", session |-> session[s]]
      ELSE IF ~Truthy(code)
        THEN [result |-> "missing_code", session |-> popped]
      ELSE IF ~Truthy(state) \/ state # stored_state
        THEN [result |-> "invalid_state", session |-> popped]
      ELSE IF ~tokenOk
        THEN [result |-> "token_failed", session |-> popped]
      ELSE IF profileOutcome # "ok"
        THEN [result |-> "profile_failed", session |-> withToken]
      ELSE IF profile.ion_username = <<>>
        THEN [result |-> "no_username", session |-> withToken]
      ELSE IF ExtractGraduationYear(profile).raised
        THEN [result |-> "overflow_error", session |-> withToken]
      ELSE [result |-> "upsert", session |-> withToken]

\* oauth_callback, lines 137-190: everything before update_or_create runs.  The
\* provider's answers are inputs: tokenOk and tok (fetch_token), profileOutcome
\* ("ok", "transport" or "status") and profile (the JSON payload).
\* Yields the response ("upsert" when the handler goes on to the store;
\* "overflow_error" when building the defaults raises) and the session as the
\* handler leaves it.
CallbackPrelude(s, state, code, tokenOk, tok, profileOutcome, profile) ==
  LET stored_state == session[s].state
      popped == [session[s] EXCEPT !.state = NoneVal]
      withToken == [popped EXCEPT !.token = tok]
  IN  IF MissingOAuthSettings(TRUE) # <<>>
        THEN [result |-> "improperly_configured", session |-> session[s]]
      ELSE IF InvalidState(state, stored_state)
        THEN [result |-> "invalid_state", session |-> popped]
      ELSE IF ~Truthy(code)
        THEN [result |-> "missing_code", session |-> popped]
      ELSE IF ~tokenOk
        THEN [result |-> "token_failed", session |-> popped]
      ELSE IF profileOutcome # "ok"
        THEN [result |-> "profile_failed", session |-> withToken]
      ELSE IF profile.ion_username = <<>>
        THEN [result |-> "no_username", session |-> withToken]
      ELSE IF ExtractGraduationYear(profile).raised
        THEN [result |-> "overflow_error", session |-> withToken]
      ELSE [result |-> "upsert", session |-> withToken]

AdminMark(is_admin) == IF is_admin THEN "yes" ELSE "no"

PriorMark(username) ==
  IF RowsByUsername(username) = {} THEN "none"
  ELSE AdminMark((CHOOSE r \in RowsByUsername(username) : TRUE).is_admin)

\* What the provider answers to one callback: fetch_token raises (tokenOk
\* FALSE) or returns tok; the profile request fails in transport, fails
\* raise_for_status, or returns the payload `profile`.
TokenRefused ==
  [tokenOk |-> FALSE, tok |-> NoneVal, profileOutcome |-> "none", profile |-> NoProfile]

ProviderAnswers ==
  {TokenRefused}
  \cup [tokenOk : {TRUE}, tok : Tokens, profileOutcome : {"transport", "status"},
        profile : {NoProfile}]
  \cup [tokenOk : {TRUE}, tok : Tokens, profileOutcome : {"ok"}, profile : Profiles]

\* The requests a callback can be: the query string and, when the handler
\* gets as far as the provider, the provider's answers.
CallbackInputs(s) ==
  [state : QueryStates, code : QueryCodes, answer : {TokenRefused}]
  \cup [state : {session[s].state} \cap OAuthStates, code : {"code"},
        answer : ProviderAnswers]

Prelude(s, in) ==
  CallbackPrelude(s, in.state, in.code, in.answer.tokenOk, in.answer.tok,
                  in.answer.profileOutcome, in.answer.profile)

CallbackRecord(s, q, result) ==
  [Respond("oauth_callback", s, result) EXCEPT !.q = q]

\* The record of a callback that logged `username` in.
LoginRecord(s, q, username, how) ==
  [CallbackRecord(s, q, "redirect_challenge")
     EXCEPT !.ion_username = username, !.prior = PriorMark(username), !.how = how]

\* oauth_callback returning before update_or_create with response pre.result.
CallbackReturns(s, in, pre) ==
  /\ session' = [session EXCEPT ![s] = pre.session]
  /\ used' = IF pre.result \in {"improperly_configured", "invalid_state"}
               THEN used
             ELSE [used EXCEPT ![s] = in.state]
  /\ last' = CallbackRecord(s, in.state, pre.result)
  /\ UNCHANGED <<store, nextPk, lastAdmin>>

\* oauth_callback, the whole handler in one step.
OAuthCallback(s, in) ==
  /\ Idle(s)
  /\ LET pre == Prelude(s, in)
         profile == in.answer.profile
         up == UpdateOrCreate(profile.ion_username, Defaults(profile, now))
     IN  IF pre.result # "upsert"
           THEN CallbackReturns(s, in, pre)
         ELSE IF up.raised
           THEN CallbackReturns(s, in, [result |-> "server_error",
                                        session |-> pre.session])
           ELSE /\ store' = up.store
                /\ nextPk' = up.nextPk
                /\ session' = [session EXCEPT
                                 ![s] = [pre.session EXCEPT !.participant = up.pk]]
                /\ used' = [used EXCEPT ![s] = in.state]
                /\ lastAdmin' = [lastAdmin EXCEPT
                                   ![profile.ion_username] =
                                       AdminMark(ExtractIsAdmin(profile))]
                /\ last' = LoginRecord(s, in.state, profile.ion_username,
                                       IF up.created THEN "created" ELSE "updated")
  /\ UNCHANGED <<settings, now, pc, req>>

\* ------------------------------------------------ update_or_create, by statement

\* oauth_callback up to the call of update_or_create; when it gets there the
\* request goes on statement by statement, other sessions' requests in between.
CallbackBegin(s, in) ==
  /\ Idle(s)
  /\ LET pre == Prelude(s, in)
         profile == in.answer.profile
     IN  IF pre.result # "upsert"
           THEN CallbackReturns(s, in, pre) /\ UNCHANGED <<pc, req>>
           ELSE /\ session' = [session EXCEPT ![s] = pre.session]
                /\ pc' = [pc EXCEPT ![s] = "get"]
                /\ req' = [req EXCEPT ![s] =
                             [ion_username |-> profile.ion_username,
                              defaults |-> Defaults(profile, now),
                              obj |-> 0, q |-> in.state, how |-> "updated"]]
                /\ UNCHANGED <<store, nextPk, used, lastAdmin, last>>
  /\ UNCHANGED <<settings, now>>

\* get_or_create: self.get(ion_username=...)
UocGet(s) ==
  /\ pc[s] = "get"
  /\ LET rows == RowsByUsername(req[s].ion_username)
     IN  IF rows = {}
           THEN /\ pc' = [pc EXCEPT ![s] = "create"]
                /\ req' = req
           ELSE /\ pc' = [pc EXCEPT ![s] = "save"]
                /\ req' = [req EXCEPT ![s].obj = (CHOOSE r \in rows : TRUE).pk]
  /\ UNCHANGED <<settings, now, session, store, nextPk, last, used, lastAdmin>>

UniqueNotEnforced(username) == FALSE

\* ion_username is unique=True: an INSERT of a username already in the table
\* raises IntegrityError.
UniqueViolation(username) == RowsByUsername(username) # {}

\* The request ends: the participant is bound into the session and the
\* response redirects to the challenge.
Finish(s, pk) ==
  /\ session' = [session EXCEPT ![s].participant = pk]
  /\ used' = [used EXCEPT ![s] = req[s].q]
  /\ lastAdmin' = [lastAdmin EXCEPT
                     ![req[s].ion_username] = AdminMark(req[s].defaults.is_admin)]
  /\ pc' = [pc EXCEPT ![s] = "idle"]
  /\ req' = [req EXCEPT ![s] = NoReq]

\* The request ends in an unhandled database exception.
Raise(s) ==
  /\ last' = CallbackRecord(s, req[s].q, "server_error")
  /\ used' = [used EXCEPT ![s] = req[s].q]
  /\ pc' = [pc EXCEPT ![s] = "idle"]
  /\ req' = [req EXCEPT ![s] = NoReq]
  /\ UNCHANGED <<session, store, nextPk, lastAdmin>>

\* get_or_create: self.create(ion_username=..., **defaults); an
\* IntegrityError sends it to look for the row once more.
UocCreate(s) ==
  /\ pc[s] = "create"
  /\ IF UniqueViolation(req[s].ion_username) \/ CheckViolation(req[s].defaults)
       THEN /\ pc' = [pc EXCEPT ![s] = "reget"]
            /\ req' = [req EXCEPT ![s].how = "retried"]
            /\ UNCHANGED <<session, store, nextPk, last, used, lastAdmin>>
       ELSE /\ store' = store \cup {NewRow(nextPk, req[s].ion_username, req[s].defaults)}
            /\ nextPk' = nextPk + 1
            /\ last' = LoginRecord(s, req[s].q, req[s].ion_username, "created")
            /\ Finish(s, nextPk)
  /\ UNCHANGED <<settings, now>>

\* get_or_create after IntegrityError: self.get(ion_username=...) once more;
\* the IntegrityError is re-raised when the row is gone again.
UocReget(s) ==
  /\ pc[s] = "reget"
  /\ LET rows == RowsByUsername(req[s].ion_username)
     IN  IF rows = {}
           THEN Raise(s)
           ELSE /\ pc' = [pc EXCEPT ![s] = "save"]
                /\ req' = [req EXCEPT ![s].obj = (CHOOSE r \in rows : TRUE).pk]
                /\ UNCHANGED <<session, store, nextPk, last, used, lastAdmin>>
  /\ UNCHANGED <<settings, now>>

\* update_or_create: obj.save(update_fields=...), an UPDATE by primary key
\* that raises DatabaseError when it changes no row and IntegrityError when
\* the new values break a check of the table.
UocSave(s) ==
  /\ pc[s] = "save"
  /\ LET rows == RowsByPk(req[s].obj)
     IN  IF rows = {} \/ CheckViolation(req[s].defaults)
           THEN Raise(s)
           ELSE /\ store' = (store \ rows)
                              \cup {SaveDefaults(r, req[s].defaults) : r \in rows}
                /\ nextPk' = nextPk
                /\ last' = LoginRecord(s, req[s].q, req[s].ion_username, req[s].how)
                /\ Finish(s, req[s].obj)
  /\ UNCHANGED <<settings, now>>

\* A Participant row is deleted (the admin site, a shell): pk is never reused.
DeleteParticipant(pk) ==
  /\ RowsByPk(pk) # {}
  /\ store' = store \ RowsByPk(pk)
  /\ last' = [NoRequest EXCEPT !.op = "delete"]
  /\ UNCHANGED <<settings, now, session, nextPk, pc, req, used, lastAdmin>>

\* ------------------------------------------------------------------ specification

\* The provider's directory and the trail are not followed.
Quiet == UNCHANGED <<directory, trail>>

\* The handlers, each served in one step, at one instant.
Next ==
  \/ \E s \in Sessions : LoginView(s) /\ Quiet
  \/ \E s \in Sessions : DashboardView(s) /\ Quiet
  \/ \E s \in Sessions : ChallengeView(s) /\ Quiet
  \/ \E s \in Sessions : OAuthStart(s) /\ Quiet
  \/ \E s \in Sessions : \E in \in CallbackInputs(s) : OAuthCallback(s, in) /\ Quiet

Spec == Init /\ [][Next]_vars

\* The rows and sessions that logins of AdminAlice and PlainBob leave behind.
AliceRow == NewRow(1, Alice, Defaults(AdminAlice, 0))
BobRow == NewRow(2, Bob, Defaults(PlainBob, 0))

LoggedIn(pk) == [state |-> NoneVal, token |-> "tokA", participant |-> pk]

\* A fully configured deployment with any hunt window, in which Alice (an
\* admin) and Bob have logged in and each session is logged out or bound to
\* one of them.
InitHunt ==
  /\ settings \in Configurations
  /\ FullyConfigured
  /\ ProviderConfigured
  /\ now = 0
  /\ store = {AliceRow, BobRow}
  /\ nextPk = 3
  /\ session \in [Sessions -> {EmptySession, LoggedIn(1), LoggedIn(2)}]
  /\ pc = [s \in Sessions |-> "idle"]
  /\ req = [s \in Sessions |-> NoReq]
  /\ last = NoRequest
  /\ used = [s \in Sessions |-> Unused]
  /\ lastAdmin = [u \in Usernames |->
                    IF u = Alice THEN "yes" ELSE IF u = Bob THEN "no" ELSE "none"]
  /\ directory = NoProfile
  /\ trail = [s \in Sessions |-> <<>>]

\* The pages behind the login while the clock runs and rows get deleted.
NextHunt ==
  \/ Tick /\ Quiet
  \/ \E s \in Sessions : LoginView(s) /\ Quiet
  \/ \E s \in Sessions : DashboardView(s) /\ Quiet
  \/ \E s \in Sessions : ChallengeView(s) /\ Quiet
  \/ \E pk \in 1..2 : DeleteParticipant(pk) /\ Quiet

SpecHunt == InitHunt /\ [][NextHunt]_vars

\* Logins of a fully configured deployment whose update_or_create calls
\* interleave statement by statement.
InitConc == Init /\ FullyConfigured

NextConc ==
  \/ \E s \in Sessions : OAuthStart(s) /\ Quiet
  \/ \E s \in Sessions : \E in \in CallbackInputs(s) : CallbackBegin(s, in) /\ Quiet
  \/ \E s \in Sessions : UocGet(s) /\ Quiet
  \/ \E s \in Sessions : UocCreate(s) /\ Quiet
  \/ \E s \in Sessions : UocReget(s) /\ Quiet
  \/ \E s \in Sessions : UocSave(s) /\ Quiet

SpecConc == InitConc /\ [][NextConc]_vars

\* The start of the handshake under every OAuth configuration, the client
\* secret set: oauth_start, the login page, and callbacks that end before the
\* provider answers.
InitStart ==
  /\ settings \in Configurations
  /\ settings.ION_CLIENT_SECRET
  /\ settings.SCAV_HUNT_START = 1
  /\ settings.SCAV_HUNT_END = -1
  /\ Fresh

NextStart ==
  \/ \E s \in Sessions : OAuthStart(s) /\ Quiet
  \/ \E s \in Sessions : LoginView(s) /\ Quiet
  \/ \E s \in Sessions :
       \E in \in [state : QueryStates, code : QueryCodes, answer : {TokenRefused}] :
         OAuthCallback(s, in) /\ Quiet

SpecStart == InitStart /\ [][NextStart]_vars

\* A user whose profile at the provider is any of MapperProfiles logs in, on
\* either session, again and again.
InitMap ==
  /\ settings \in Configurations
  /\ FullyConfigured
  /\ ProviderConfigured
  /\ settings.SCAV_HUNT_START = 1
  /\ settings.SCAV_HUNT_END = -1
  /\ now = 0
  /\ session = [s \in Sessions |-> EmptySession]
  /\ store = {}
  /\ nextPk = 1
  /\ pc = [s \in Sessions |-> "idle"]
  /\ req = [s \in Sessions |-> NoReq]
  /\ last = NoRequest
  /\ used = [s \in Sessions |-> Unused]
  /\ lastAdmin = [u \in Usernames |-> "none"]
  /\ directory \in MapperProfiles
  /\ trail = [s \in Sessions |-> <<>>]

\* The callbacks of that user: the state matches, a code is there, and the
\* provider answers with a token and the user's payload.
DirectoryInputs(s) ==
  [state : {session[s].state} \cap OAuthStates, code : {"code"},
   answer : [tokenOk : {TRUE}, tok : {"tokA"}, profileOutcome : {"ok"},
             profile : {directory}]]

NextMap ==
  \/ \E s \in Sessions : OAuthStart(s) /\ Quiet
  \/ \E s \in Sessions : \E in \in DirectoryInputs(s) : OAuthCallback(s, in) /\ Quiet

SpecMap == InitMap /\ [][NextMap]_vars

\* Alice (an admin) has logged in on session 1 and Bob on session 2, each
\* with token "tokA"; the hunt has no start and ends at instant 0.
InitLogin ==
  /\ settings \in Configurations
  /\ FullyConfigured
  /\ ProviderConfigured
  /\ settings.SCAV_HUNT_START = -1
  /\ settings.SCAV_HUNT_END = 0
  /\ now = 0
  /\ store = {AliceRow, BobRow}
  /\ nextPk = 3
  /\ session = [s \in Sessions |-> LoggedIn(s)]
  /\ pc = [s \in Sessions |-> "idle"]
  /\ req = [s \in Sessions |-> NoReq]
  /\ last = NoRequest
  /\ used = [s \in Sessions |-> Unused]
  /\ lastAdmin = [u \in Usernames |->
                    IF u = Alice THEN "yes" ELSE IF u = Bob THEN "no" ELSE "none"]
  /\ directory = NoProfile
  /\ trail = [s \in Sessions |-> <<>>]

\* The callbacks that follow: the state matches, a code is there, and the
\* provider issues the token "tokB" and answers with one of Profiles.
LoginInputs(s) ==
  [state : {session[s].state} \cap OAuthStates, code : {"code"},
   answer : [tokenOk : {TRUE}, tok : {"tokB"}, profileOutcome : {"ok"},
             profile : Profiles]]

\* Further logins and visits of the challenge page while the clock runs.
NextLogin ==
  \/ Tick /\ Quiet
  \/ \E s \in Sessions : OAuthStart(s) /\ Quiet
  \/ \E s \in Sessions : \E in \in LoginInputs(s) : OAuthCallback(s, in) /\ Quiet
  \/ \E s \in Sessions : ChallengeView(s) /\ Quiet

SpecLogin == InitLogin /\ [][NextLogin]_vars

\* The session whose handshake requests the trail records.
Followed == 1

\* The sequence `events` cut down to its latest MaxTrail entries.
Latest(events) ==
  IF Len(events) > MaxTrail
    THEN SubSeq(events, Len(events) - MaxTrail + 1, Len(events))
    ELSE events

\* The request just served enters the trail of its session when that is the
\* session followed.
Logged ==
  /\ trail' = IF last'.sid = Followed
                THEN [trail EXCEPT ![Followed] =
                        Latest(Append(@, [op |-> last'.op, q |-> last'.q,
                                          result |-> last'.result]))]
                ELSE trail
  /\ UNCHANGED directory

\* A configured deployment in which one browser starts handshakes and
\* callbacks arrive that end before the provider answers or with its refusal.
InitReplay == Init /\ FullyConfigured

NextReplay ==
  \/ OAuthStart(Followed) /\ Logged
  \/ \E in \in [state : QueryStates, code : QueryCodes, answer : {TokenRefused}] :
       OAuthCallback(Followed, in) /\ Logged

SpecReplay == InitReplay /\ [][NextReplay]_vars

\* ------------------------------------------------------------------ claims

\* The session and the query state of the callback a step has just served.
CallbackStep == last'.op = "oauth_callback"

\* C1: in a fully configured deployment, a callback whose query state is
\* absent, empty or different from the state stored in the session (also when
\* none is stored) answers the invalid-state bad request and leaves the session
\* without a stored state.
C1_InvalidStateRejected ==
  [][ (/\ CallbackStep
       /\ FullyConfigured
       /\ \/ last'.q = NoneVal
          \/ last'.q = ""
          \/ last'.q # session[last'.sid].state)
      => /\ last'.result = "invalid_state"
         /\ Status(last'.result) = 400
         /\ session'[last'.sid].state = NoneVal ]_vars

\* A callback with a wrong state was rejected while a state was pending, and
\* the pending state is gone.
C1_Witness ==
  /\ last.op = "oauth_callback"
  /\ last.result = "invalid_state"
  /\ last.q \in OAuthStates
  /\ used[last.sid] = Unused
  /\ session[last.sid].state = NoneVal
  /\ FullyConfigured

C3_StateAlwaysCleared ==
  last.op = "oauth_callback" => session[last.sid].state = NoneVal

\* A callback step whose query state matches the state stored in the session.
MatchedStep ==
  /\ CallbackStep
  /\ FullyConfigured
  /\ last'.q # NoneVal /\ last'.q # ""
  /\ last'.q = session[last'.sid].state

\* The requests of such a step that carry a code, by the provider's answer.
WithCode(answers) ==
  [state : {last'.q}, code : QueryCodes \ {NoneVal, ""}, answer : answers]

\* C4: when the token exchange fails (state matched, code present), the
\* response is the 502 upstream error, the participant table and the session's
\* participant binding are unchanged and no token is written to the session.
C4_TokenFailureWritesNothing ==
  [][ MatchedStep
      => \A in \in WithCode({a \in ProviderAnswers : ~a.tokenOk}) :
           OAuthCallback(last'.sid, in)
           => /\ last'.result = "token_failed"
              /\ Status(last'.result) = 502
              /\ store' = store
              /\ lastAdmin' = lastAdmin
              /\ session'[last'.sid].participant = session[last'.sid].participant
              /\ session'[last'.sid].token = session[last'.sid].token ]_vars

\* A token exchange failed on a session that is logged in and holds a token.
C4_Witness ==
  /\ last.op = "oauth_callback"
  /\ last.result = "token_failed"
  /\ session[last.sid].token \in Tokens
  /\ session[last.sid].participant # 0

C6_OneRowLatestAdmin ==
  \A u \in Usernames :
    IF lastAdmin[u] = "none" THEN RowsByUsername(u) = {}
    ELSE /\ Cardinality(RowsByUsername(u)) = 1
         /\ \A r \in RowsByUsername(u) : r.is_admin = (lastAdmin[u] = "yes")

\* A login without admin claims has just updated a row that was an admin's.
C6_Witness ==
  /\ last.op = "oauth_callback"
  /\ last.result = "redirect_challenge"
  /\ last.prior = "yes"
  /\ \A r \in RowsByUsername(last.ion_username) : ~r.is_admin
  /\ Cardinality(RowsByUsername(last.ion_username)) = 1

\* C7: however the update_or_create calls of concurrent callbacks of different
\* sessions interleave, the table never holds two rows of one username, a
\* login that completes leaves its session bound to the one row of its
\* username, no binding dangles, and every row carries the fields of a single
\* login (the defaults mapped from one profile at one instant).
C7_ConcurrentUpsertAtomic ==
  /\ \A u \in Usernames : Cardinality(RowsByUsername(u)) <= 1
  /\ (last.op = "oauth_callback" /\ last.result = "redirect_challenge")
       => /\ Cardinality(RowsByUsername(last.ion_username)) = 1
          /\ RowsByPk(session[last.sid].participant)
               = RowsByUsername(last.ion_username)
  /\ \A s \in Sessions :
       session[s].participant # 0 => Cardinality(RowsByPk(session[s].participant)) = 1
  /\ \A r \in store :
       \E profile \in Profiles, t \in Times :
         /\ profile.ion_username # <<>>
         /\ r = NewRow(r.pk, profile.ion_username, Defaults(profile, t))

\* Two sessions logged the same username in at once: the second INSERT hit
\* the unique constraint, found the row and updated it, and both sessions are
\* bound to that row.
C7_Witness ==
  /\ last.op = "oauth_callback"
  /\ last.result = "redirect_challenge"
  /\ last.how = "retried"
  /\ \A s \in Sessions :
       /\ pc[s] = "idle"
       /\ RowsByPk(session[s].participant) = RowsByUsername(last.ion_username)
  /\ Cardinality(RowsByUsername(last.ion_username)) = 1

\* C8: _hunt_window_status answers (closed, "upcoming", a message) exactly
\* when start is set and now < start; otherwise (closed, "ended", a message)
\* exactly when end is set and now > end; otherwise (open, "open", ""); and
\* challenge_view hands that state and message to its template.
C8_HuntWindowStatus ==
  LET start == settings.SCAV_HUNT_START
      end == settings.SCAV_HUNT_END
      before == start # -1 /\ now < start
      after == end # -1 /\ now > end
      got == HuntWindowStatus(now)
  IN  /\ before =>
           got.state = "upcoming" /\ ~got.is_open /\ got.message # <<>>
      /\ (~before /\ after) =>
           got.state = "ended" /\ ~got.is_open /\ got.message # <<>>
      /\ (~before /\ ~after) =>
           got.state = "open" /\ got.is_open /\ got.message = <<>>
      /\ (last.op = "challenge_view" /\ last.result # "redirect_login") =>
           last.hunt_state = got.state /\ last.hunt_message = got.message

\* challenge_view ran while now is both before a start and after an end (the
\* start lies later than the end) and reported "upcoming".
C8_Witness ==
  /\ last.op = "challenge_view"
  /\ settings.SCAV_HUNT_END # -1
  /\ settings.SCAV_HUNT_END < now
  /\ now < settings.SCAV_HUNT_START
  /\ last.hunt_state = "upcoming"

\* The row a session is bound to.
BoundRows(s) == RowsByPk(session[s].participant)

\* C9: for a resolved participant challenge_view renders the challenge exactly
\* when the hunt state is "open" or the participant's is_admin is true, and
\* the closed notice otherwise.
C9_ContentIffOpenOrAdmin ==
  (last.op = "challenge_view" /\ last.result # "redirect_login")
  => /\ BoundRows(last.sid) # {}
     /\ \A r \in BoundRows(last.sid) :
          /\ last.result = "render_challenge"
               <=> (last.hunt_state = "open" \/ r.is_admin)
          /\ last.result \in {"render_challenge", "render_closed"}

\* An admin got the challenge after the hunt had ended.
C9_Witness ==
  /\ last.op = "challenge_view"
  /\ last.result = "render_challenge"
  /\ last.hunt_state = "ended"

\* C10: challenge_view redirects to the login page whenever the session
\* resolves to no participant (no binding, or a binding to a row that is
\* gone), whatever the window; and answers the 403 closed notice whenever the
\* participant is resolved, not an admin, and the window is closed.
C10_DenialsDistinct ==
  [][ (last'.op = "challenge_view")
      => LET s == last'.sid
             start == settings.SCAV_HUNT_START
             end == settings.SCAV_HUNT_END
             closed == (start # -1 /\ now < start) \/ (end # -1 /\ now > end)
         IN  /\ (session[s].participant = 0 \/ BoundRows(s) = {})
                  => /\ last'.result = "redirect_login"
                     /\ Status(last'.result) = 302
             /\ (\E r \in BoundRows(s) : ~r.is_admin /\ closed)
                  => /\ last'.result = "render_closed"
                     /\ Status(last'.result) = 403 ]_vars

\* A session whose participant row had been deleted was sent to the login
\* page while the window was open.
C10_Witness ==
  /\ last.op = "challenge_view"
  /\ last.result = "redirect_login"
  /\ session[last.sid].participant = 0
  /\ session[last.sid].token # NoneVal
  /\ HuntWindowStatus(now).is_open

\* A step that served one of the pages that resolve the session's participant.
ViewStep == last'.op \in {"login_view", "dashboard_view", "challenge_view"}

\* The responses a page gives when it has resolved a participant.
ForParticipant ==
  {"redirect_challenge", "render_dashboard", "render_challenge", "render_closed"}

\* C11: a page served on a session whose bound participant id refers to no row
\* answers as to a visitor who is not logged in and removes the binding (and
\* nothing else) from the session; served on a session bound to an existing
\* row it answers for that participant and leaves the session as it was; and
\* a session without binding is answered as not logged in and stays without
\* binding (nothing but a handshake binds a session).
C11_StaleBindingCleared ==
  [][ /\ ViewStep =>
           LET s == last'.sid
           IN  /\ BoundRows(s) = {}
                    => /\ last'.result \notin ForParticipant
                       /\ session'[s] = [session[s] EXCEPT !.participant = 0]
               /\ BoundRows(s) # {}
                    => /\ last'.result \in ForParticipant
                       /\ session'[s] = session[s]
               /\ \A o \in Sessions \ {s} : session'[o] = session[o]
      /\ ~ViewStep => session' = session ]_vars

\* The dashboard was asked for on a session whose participant row had been
\* deleted: the visitor was sent to the login page, the binding is gone, the
\* token is still there, and another session is still bound to an existing row.
C11_Witness ==
  /\ last.op = "dashboard_view"
  /\ last.result = "redirect_login"
  /\ session[last.sid].participant = 0
  /\ session[last.sid].token # NoneVal
  /\ \E o \in Sessions \ {last.sid} : BoundRows(o) # {}

\* C12: oauth_start answers the configuration error whenever one of client
\* id, redirect URI, authorize endpoint or scope is missing, and then leaves
\* the session as it was; when all four are set it stores a state in the
\* session and redirects to a URL carrying that state.
C12_StartRequiresFullConfiguration ==
  [][ last'.op = "oauth_start" =>
        LET s == last'.sid
            complete == /\ settings.ION_CLIENT_ID
                        /\ settings.ION_REDIRECT_URI
                        /\ settings.ION_AUTHORIZE_URL
                        /\ settings.ION_SCOPE
        IN  /\ ~complete => /\ last'.result = "improperly_configured"
                             /\ session'[s] = session[s]
            /\ complete => /\ last'.result = "redirect_authorize"
                            /\ session'[s].state \in OAuthStates
                            /\ last'.q = session'[s].state ]_vars

\* The spellings, among the group names of the payloads, that are one of the
\* three admin groups up to case.
AdminSpellings ==
  {"scavenger-admin", "Scavenger-Admin", "ion-admin", "Ion-Admin",
   "admin", "Admin", "ADMIN"}

\* C13: the is_admin a login stores is true exactly when the payload's groups
\* value is a list holding one of the three admin groups in any case, or its
\* is_admin or is_staff flag is set; groups that are absent or not a list
\* count as empty, and no such payload makes the callback fail.
C13_IsAdminUnion ==
  LET inGroups == /\ directory.groups.t = "list"
                  /\ \E i \in DOMAIN directory.groups.v :
                       directory.groups.v[i] \in AdminSpellings
      expected == inGroups \/ directory.is_admin \/ directory.is_staff
  IN  /\ \A r \in RowsByUsername(directory.ion_username) : r.is_admin = expected
      /\ (last.op = "oauth_callback" /\ directory.graduation_year = AbsentYear)
           => /\ last.result = "redirect_challenge"
              /\ RowsByUsername(directory.ion_username) # {}

\* A user whose only admin claim is the group "Scavenger-Admin" has logged in
\* and is stored as admin.
C13_Witness ==
  /\ directory.groups = ListGroups(<<"Scavenger-Admin", "students">>)
  /\ ~directory.is_admin /\ ~directory.is_staff
  /\ last.op = "oauth_callback"
  /\ \E r \in RowsByUsername(directory.ion_username) : r.is_admin

\* The graduation_year values that denote an integer, each with that integer.
YearIntegers ==
  { <<StrYear("2026"), 2026>>, <<StrYear(" 2027 "), 2027>>, <<StrYear("0"), 0>>,
    <<StrYear("-5"), -5>>, <<IntYear(2026), 2026>>, <<IntYear(0), 0>>,
    <<IntYear(-5), -5>>, <<FloatYear("2026.5"), 2026>> }

\* C14: mapping graduation_year never raises, whatever the payload holds: no
\* callback ends in an exception of the mapper, and the year a login stores is
\* the integer the payload's value denotes, null when the value is absent,
\* empty, or denotes none.
C14_YearNeverRaises ==
  /\ last.result # "overflow_error"
  /\ \A r \in RowsByUsername(directory.ion_username) :
       IF \E d \in YearIntegers : d[1] = directory.graduation_year
         THEN /\ ~r.graduation_year.null
              /\ <<directory.graduation_year, r.graduation_year.n>> \in YearIntegers
         ELSE r.graduation_year.null

\* C15: the graduation_year of every stored participant is null or strictly
\* positive.
C15_StoredYearPositive ==
  \A r \in store : r.graduation_year.null \/ r.graduation_year.n > 0

\* The trimmed first and last name of the provider's payload joined by one
\* space, an empty part and its space left out; the trimmed username when
\* both parts are empty.
JoinedName ==
  LET given == Strip(directory.first_name)
      family == Strip(directory.last_name)
  IN  IF given # <<>> /\ family # <<>> THEN given \o <<" ">> \o family
      ELSE IF given # <<>> THEN given
      ELSE IF family # <<>> THEN family
      ELSE Strip(directory.ion_username)

\* C16 as claimed: the display_name a login stores is the trimmed first and
\* last name joined by one space with empty parts left out, and the trimmed
\* username when both are empty.
C16_DisplayNameTrimmed ==
  \A r \in RowsByUsername(directory.ion_username) : r.display_name = JoinedName

\* C16 as amended: the same, except that when the trimmed username is empty
\* too (the username is all whitespace) the display_name is the username as
\* received; in every other case it has no leading or trailing space.
C16_DisplayNameOrRawUsername ==
  \A r \in RowsByUsername(directory.ion_username) :
    IF JoinedName # <<>>
      THEN /\ r.display_name = JoinedName
           /\ r.display_name[1] # " "
           /\ r.display_name[Len(r.display_name)] # " "
      ELSE r.display_name = directory.ion_username

\* A user without names whose username came padded with spaces has logged in
\* and is displayed by the bare username.
C16_Witness ==
  /\ directory.ion_username = <<" ", "a", " ">>
  /\ directory.first_name = <<" ">>
  /\ directory.last_name = <<>>
  /\ \E r \in store : r.ion_username = <<" ", "a", " ">> /\ r.display_name = <<"a">>

\* C17: a callback whose state matches, that carries a code, gets a token and
\* a profile with a username redirects to the challenge and leaves the session
\* without pending state, holding that token and bound to the one row of the
\* profile's username, whatever it was bound to before; that row's last_login
\* is the instant of the callback.
C17_LoginBindsSingleRow ==
  [][ MatchedStep
      => \A in \in WithCode({a \in ProviderAnswers :
                               /\ a.tokenOk
                               /\ a.profileOutcome = "ok"
                               /\ a.profile.ion_username # <<>>}) :
           OAuthCallback(last'.sid, in)
           => LET s == last'.sid
                  rows == {r \in store' : r.ion_username = in.answer.profile.ion_username}
              IN  /\ last'.result = "redirect_challenge"
                  /\ session'[s].state = NoneVal
                  /\ session'[s].token = in.answer.tok
                  /\ Cardinality(rows) = 1
                  /\ \A r \in rows : /\ session'[s].participant = r.pk
                                     /\ r.last_login = now ]_vars

\* Session 2, which was Bob's, has logged Alice in after the clock advanced:
\* it holds the new token and is bound to Alice's row, whose last_login is
\* the current instant.
C17_Witness ==
  /\ last.op = "oauth_callback"
  /\ last.result = "redirect_challenge"
  /\ last.sid = 2
  /\ last.ion_username = Alice
  /\ session[2].token = "tokB"
  /\ now > 0
  /\ \E r \in RowsByUsername(Alice) :
       /\ r # BobRow
       /\ session[2].participant = r.pk
       /\ r.last_login = now

\* C20: while the window is closed, challenge_view answers a session by the
\* is_admin mapped at the latest login of the participant it is bound to, on
\* whichever session that login took place: the 403 closed notice when that
\* login carried no admin claim, the challenge when it did.
C20_AdminDecidedAtRequestTime ==
  [][ last'.op = "challenge_view"
      => LET start == settings.SCAV_HUNT_START
             end == settings.SCAV_HUNT_END
             closed == (start # -1 /\ now < start) \/ (end # -1 /\ now > end)
         IN  \A r \in BoundRows(last'.sid) :
               closed =>
                 /\ lastAdmin[r.ion_username] = "no"
                      => /\ last'.result = "render_closed"
                         /\ Status(last'.result) = 403
                 /\ lastAdmin[r.ion_username] = "yes"
                      => last'.result = "render_challenge" ]_vars

\* Session 1 still holds the token of Alice's admin login; Alice has since
\* logged in on session 2 without admin claims, and session 1 got the closed
\* notice.
C20_Witness ==
  /\ last.op = "challenge_view"
  /\ last.sid = 1
  /\ last.result = "render_closed"
  /\ session[1].token = "tokA"
  /\ session[1].participant = 1
  /\ session[2].token = "tokB"
  /\ session[2].participant = 1
  /\ lastAdmin[Alice] = "no"

\* The responses oauth_callback gives only after it has called the provider.
AfterProvider ==
  {"token_failed", "profile_failed", "no_username", "overflow_error",
   "server_error", "redirect_challenge"}

\* C18: oauth_callback checks the configuration, then the state, then the
\* code, and only then turns to the provider.  Misconfigured, it answers the
\* configuration error; else with a wrong state it answers invalid state,
\* with or without a code; else without a code it answers missing code; and
\* in these three cases the table, the session's token and its binding stay
\* as they were; a response that follows a call of the provider, or a change
\* of table, token or binding, occurs only in a configured deployment on a
\* matched state.
C18_GatesInOrder ==
  [][ CallbackStep
      => LET s == last'.sid
             q == last'.q
             invalid == q = NoneVal \/ q = "" \/ q # session[s].state
             touched == \/ store' # store
                        \/ session'[s].token # session[s].token
                        \/ session'[s].participant # session[s].participant
             noCode == [state : {q}, code : {NoneVal, ""}, answer : {TokenRefused}]
         IN  /\ ~FullyConfigured
                  => last'.result = "improperly_configured" /\ ~touched
             /\ (FullyConfigured /\ invalid)
                  => last'.result = "invalid_state" /\ ~touched
             /\ \A in \in noCode :
                  (FullyConfigured /\ OAuthCallback(s, in))
                    => /\ last'.result = IF invalid THEN "invalid_state"
                                         ELSE "missing_code"
                       /\ Status(last'.result) = 400
                       /\ ~touched
             /\ (last'.result \in AfterProvider \/ touched)
                  => FullyConfigured /\ ~invalid ]_vars

\* A callback with the right state and no code was answered "missing code" on
\* a session that is logged in: its token and binding are still there.
C18_Witness ==
  /\ last.op = "oauth_callback"
  /\ last.result = "missing_code"
  /\ used[last.sid] = last.q
  /\ session[last.sid].token = "tokB"
  /\ session[last.sid].participant # 0
  /\ RowsByPk(session[last.sid].participant) # {}

\* C19: the session holds the state of its latest oauth_start and no other:
\* after two oauth_starts in a row that issued different states, a callback
\* carrying the first state is answered invalid state and leaves no state
\* pending, and a callback that follows it carrying the second state is
\* answered invalid state as well.
C19_ReplacedStateRejected ==
  LET t == trail[Followed]
      n == Len(t)
  IN  /\ (n >= 1 /\ t[n].op = "oauth_start") => session[Followed].state = t[n].q
      /\ \A i \in 1..(n - 2) :
           (/\ t[i].op = "oauth_start"
            /\ t[i + 1].op = "oauth_start"
            /\ t[i].q # t[i + 1].q
            /\ t[i + 2].op = "oauth_callback"
            /\ t[i + 2].q = t[i].q)
           => /\ t[i + 2].result = "invalid_state"
              /\ (i + 2 = n) => session[Followed].state = NoneVal
              /\ (/\ i + 3 <= n
                  /\ t[i + 3].op = "oauth_callback"
                  /\ t[i + 3].q = t[i + 1].q)
                 => t[i + 3].result = "invalid_state"

\* oauth_start issued "st1", then "st2"; a callback carrying "st1" and then
\* one carrying "st2" were both answered invalid state.
C19_Witness ==
  trail[Followed] =
    << [op |-> "oauth_start", q |-> "st1", result |-> "redirect_authorize"],
       [op |-> "oauth_start", q |-> "st2", result |-> "redirect_authorize"],
       [op |-> "oauth_callback", q |-> "st1", result |-> "invalid_state"],
       [op |-> "oauth_callback", q |-> "st2", result |-> "invalid_state"] >>

====
